---- MODULE Spec2Model ----
(***************************************************************************)
(* hotbench: essay judging pipeline.                                       *)
(*   judges.py     JudgeScore, Judge and its four variants, get_all_judges *)
(*   models.py     EssayEvaluation, ConsolidatedResults                    *)
(*   llm.py        EssayEvaluator, consolidate_and_determine_winners       *)
(*   meta_judge.py MetaAnalyzer, perform_meta_analysis                     *)
(*   settings.py   ContestConfig                                           *)
(* Optional values (Python None) are sequences: <<>> is None, <<x>> is x.  *)
(* An exception is the name of its class; "" means nothing was raised.     *)
(***************************************************************************)
EXTENDS Integers, Sequences, FiniteSets, TLC

VARIABLES
    env,            \* os.environ: which service credentials are set now
    constructedEnv, \* history: the credentials that were set when the judges were constructed
    judges,         \* EssayEvaluator.judges, the list get_all_judges() returned
    essays,         \* EssayEvaluator.essays
    evaluations,    \* EssayEvaluator.evaluations
    evaluation,     \* evaluate_all_essays: the local EssayEvaluation being filled
    essayIdx,       \* evaluate_all_essays: position of the outer loop
    judgeIdx,       \* evaluate_all_essays: position of the inner loop
    pc,             \* the caller's position in main's sequence of steps
    config,         \* the ContestConfig handed to the consolidator and the meta-judge
    results,        \* the ConsolidatedResults returned to the caller
    winners,        \* main: results.get_winners() of the final summary
    analysis,       \* the text MetaAnalyzer.analyze returned
    error,          \* the exception that reached the caller of the failed step
    faults,         \* number of live calls that did not yield a valid payload
    callLog,        \* history: the (item, judge) calls the pipeline made, in order
    lastCall,       \* history: the last Judge.evaluate call and its outcome
    simLog,         \* history: every (text, score) pair _simulate_score produced
    nCalls,         \* number of direct Judge.evaluate calls (SpecJudge)
    vPayload,       \* SpecValidate: the payload handed to JudgeScore.model_validate
    vResult,        \* SpecValidate: what model_validate made of it
    files,          \* the essays directory: its entries in the order glob yields them
    addLog,         \* history: the add_judge_score calls made on the current item, in order
    maxTotal,       \* what config.get_max_total_score() returned
    summary,        \* the rows of the table save_summary_report wrote, in rank order
    configArgs      \* history: the arguments ContestConfig was constructed with

vars == <<env, constructedEnv, judges, essays, evaluations, evaluation, essayIdx,
          judgeIdx, pc, config, results, winners, analysis, error, faults, callLog,
          lastCall, simLog, nCalls, vPayload, vResult, files, addLog, maxTotal, summary,
          configArgs>>

(***************************************************************************)
(* Bounds of the model.                                                    *)
(***************************************************************************)
MaxTextLen == 1
MaxEssays == 2
MaxFaults == 4
MaxWinnersArg == 1
MaxCalls == 3

(***************************************************************************)
(* Small helpers.                                                          *)
(***************************************************************************)
Min(a, b) == IF a <= b THEN a ELSE b

Reverse(s) == [i \in 1..Len(s) |-> s[Len(s) + 1 - i]]

RECURSIVE SeqsUpTo(_, _)
SeqsUpTo(S, n) ==
    IF n = 0 THEN {<<>>}
    ELSE LET shorter == SeqsUpTo(S, n - 1)
         IN shorter \cup {Append(s, x) : s \in {t \in shorter : Len(t) = n - 1}, x \in S}

\* Item texts: strings over a two-letter alphabet; len(text) is Len.
Alphabet == {"a", "b"}
Texts == SeqsUpTo(Alphabet, MaxTextLen)

(***************************************************************************)
(* utils.py: the rubric.                                                   *)
(***************************************************************************)
SCORE_CATEGORIES ==
    [effectiveness |-> 25, creativity |-> 25, scholarship |-> 25, effort |-> 10]

\* Declaration order of the rubric's keys (dict order).
Categories == <<"effectiveness", "creativity", "scholarship", "effort">>

CategorySet == {Categories[i] : i \in 1..Len(Categories)}

(***************************************************************************)
(* judges.py: JudgeScore.                                                  *)
(* A payload is a function from the keys it holds to JSON values; a JSON   *)
(* value is [t, n, s]: an integer n, a string s, or null.                  *)
(***************************************************************************)
JInt(n) == [t |-> "int", n |-> n, s |-> ""]
JStr(s) == [t |-> "str", n |-> 0, s |-> s]
JNull == [t |-> "null", n |-> 0, s |-> ""]

SIMULATED_RATIONALE ==
    "This is a simulated score generated because no API key was available."

\* Variant: the lower bound is 0.
FieldValid_ge0(payload, c) ==
    /\ c \in DOMAIN payload
    /\ payload[c].t = "int"
    /\ payload[c].n >= 0
    /\ payload[c].n <= SCORE_CATEGORIES[c]

\* Field(..., ge=1, le=SCORE_CATEGORIES[c]) on an int field.
FieldValid(payload, c) ==
    /\ c \in DOMAIN payload
    /\ payload[c].t = "int"
    /\ payload[c].n >= 1
    /\ payload[c].n <= SCORE_CATEGORIES[c]

\* rationale: str = Field(...): required, any string.
RationaleValid(payload) ==
    /\ "rationale" \in DOMAIN payload
    /\ payload["rationale"].t = "str"

\* Variant: model_config extra="forbid", a key that is no field is an error.
JudgeScore_model_validate_forbid_extra(payload) ==
    IF /\ \A c \in CategorySet : FieldValid(payload, c)
       /\ RationaleValid(payload)
       /\ DOMAIN payload \subseteq CategorySet \cup {"rationale"}
    THEN << [effectiveness |-> payload["effectiveness"].n,
             creativity |-> payload["creativity"].n,
             scholarship |-> payload["scholarship"].n,
             effort |-> payload["effort"].n,
             rationale |-> payload["rationale"].s] >>
    ELSE <<>>

\* Variant: model_config extra="allow", a key that is no field is kept.
JudgeScore_model_validate_allow_extra(payload) ==
    IF (\A c \in CategorySet : FieldValid(payload, c)) /\ RationaleValid(payload)
    THEN << [k \in DOMAIN payload |->
                IF payload[k].t = "str" THEN payload[k].s ELSE payload[k].n] >>
    ELSE <<>>

\* JudgeScore.model_validate: <<score>> when every declared field validates (keys
\* that are no field of the model are dropped), <<>> for a ValidationError.
JudgeScore_model_validate(payload) ==
    IF (\A c \in CategorySet : FieldValid(payload, c)) /\ RationaleValid(payload)
    THEN << [effectiveness |-> payload["effectiveness"].n,
             creativity |-> payload["creativity"].n,
             scholarship |-> payload["scholarship"].n,
             effort |-> payload["effort"].n,
             rationale |-> payload["rationale"].s] >>
    ELSE <<>>

\* JudgeScore.total
total(score) == score.effectiveness + score.creativity + score.scholarship + score.effort

(***************************************************************************)
(* judges.py: Judge._simulate_score.                                       *)
(* random.Random(seed) followed by randint(1, 25) three times and          *)
(* randint(1, 10) once: the four draws CPython's generator yields for the  *)
(* seeds 0..8, in call order.                                              *)
(***************************************************************************)
RandomDraws ==
    << <<13, 25, 14, 1>>, <<5, 19, 25, 2>>, <<2, 3, 3, 6>>, <<8, 19, 18, 3>>,
       <<8, 10, 4, 7>>, <<20, 9, 24, 6>>, <<19, 3, 16, 5>>, <<11, 5, 13, 1>>,
       <<8, 12, 13, 3>> >>

\* rnd = random.Random(seed); the k-th rnd.randint of _simulate_score.
randint(seed, k) == RandomDraws[seed + 1][k]

\* The dict literal of lines 92-98 for a generator seeded with `seed`.
SimulatedPayload(seed) ==
    [c \in CategorySet \cup {"rationale"} |->
        IF c = "effectiveness" THEN JInt(randint(seed, 1))
        ELSE IF c = "creativity" THEN JInt(randint(seed, 2))
        ELSE IF c = "scholarship" THEN JInt(randint(seed, 3))
        ELSE IF c = "effort" THEN JInt(randint(seed, 4))
        ELSE JStr(SIMULATED_RATIONALE)]

\* Variant: the seed is taken from the text's content (its number of "a"s).
_simulate_score_content_seed(essay_content) ==
    JudgeScore_model_validate(
        SimulatedPayload(Cardinality({i \in 1..Len(essay_content) : essay_content[i] = "a"})))[1]

_simulate_score(essay_content) ==
    JudgeScore_model_validate(SimulatedPayload(Len(essay_content)))[1]

(***************************************************************************)
(* Exceptions: the classes each one is an instance of.                     *)
(***************************************************************************)
Bases(exc) ==
    CASE exc = "OpenAIError" -> {"OpenAIError", "Exception"}
      [] exc = "GoogleAPIError" -> {"GoogleAPIError", "Exception"}
      [] exc = "JSONDecodeError" -> {"JSONDecodeError", "ValueError", "Exception"}
      [] exc = "ValidationError" -> {"ValidationError", "ValueError", "Exception"}
      [] exc = "ValueError" -> {"ValueError", "Exception"}
      [] exc = "TypeError" -> {"TypeError", "Exception"}
      [] exc = "IndexError" -> {"IndexError", "LookupError", "Exception"}
      [] exc = "KeyError" -> {"KeyError", "LookupError", "Exception"}
      [] exc = "AttributeError" -> {"AttributeError", "Exception"}
      [] exc = "KeyboardInterrupt" -> {"KeyboardInterrupt", "BaseException"}
      [] OTHER -> {}

\* `except classes:` catches exc.
Catches(classes, exc) == Bases(exc) \cap classes # {}

(***************************************************************************)
(* judges.py: the judges.                                                  *)
(* A credential is TRUE when os.getenv yields a non-empty value.  A judge's*)
(* client is TRUE for a constructed service handle and FALSE for None.     *)
(***************************************************************************)
Envs == [OPENAI_API_KEY : BOOLEAN, GOOGLE_API_KEY : BOOLEAN]

OpenAIAcademicJudge(judge_id, e) ==
    [judge_id |-> judge_id, judge_type |-> "The Academic", service |-> "openai",
     client |-> e.OPENAI_API_KEY]

GoogleCreativeJudge(judge_id, e) ==
    [judge_id |-> judge_id, judge_type |-> "The Creative Writer", service |-> "google",
     client |-> e.GOOGLE_API_KEY]

OpenAIHistoryJudge(judge_id, e) ==
    [judge_id |-> judge_id, judge_type |-> "History Professor", service |-> "openai",
     client |-> e.OPENAI_API_KEY]

GoogleLiteratureJudge(judge_id, e) ==
    [judge_id |-> judge_id, judge_type |-> "English Literature Professor",
     service |-> "google", client |-> e.GOOGLE_API_KEY]

get_all_judges(e) ==
    << OpenAIAcademicJudge(1, e), GoogleCreativeJudge(2, e),
       OpenAIHistoryJudge(3, e), GoogleLiteratureJudge(4, e) >>

\* The credential a judge's constructor reads.
CredentialOf(judge) ==
    IF judge.service = "openai" THEN "OPENAI_API_KEY" ELSE "GOOGLE_API_KEY"

(***************************************************************************)
(* What a backing service can answer.  kind:                               *)
(*   error       the request raises the service library's error            *)
(*   no_choices  chat completion whose choices list is empty               *)
(*   no_content  chat completion whose message content is None             *)
(*   no_text     generative response whose .text accessor raises ValueError*)
(*   malformed   a text that is no JSON document (also the empty text)     *)
(*   json        a text that parses to the payload                         *)
(***************************************************************************)
Resp(kind) == [kind |-> kind, payload |-> <<>>]

JsonResp(p) == [kind |-> "json", payload |-> <<p>>]

ValidPayload ==
    [c \in CategorySet \cup {"rationale"} |->
        IF c = "effort" THEN JInt(9)
        ELSE IF c = "rationale" THEN JStr("Clear thesis, well supported.")
        ELSE JInt(20)]

OutOfRangePayload == [ValidPayload EXCEPT !["effort"] = JInt(11)]

MissingFieldPayload == [c \in {"effectiveness", "scholarship", "effort", "rationale"} |-> ValidPayload[c]]

WirePayloads == {ValidPayload, OutOfRangePayload, MissingFieldPayload}

OpenAIResponses ==
    {Resp("error"), Resp("no_choices"), Resp("no_content"), Resp("malformed")}
        \cup {JsonResp(p) : p \in WirePayloads}

GoogleResponses ==
    {Resp("error"), Resp("no_text"), Resp("malformed")}
        \cup {JsonResp(p) : p \in WirePayloads}

ResponsesOf(judge) ==
    IF judge.service = "openai" THEN OpenAIResponses ELSE GoogleResponses

\* A direct caller's service may also answer with an empty rationale.
EmptyRationalePayload == [ValidPayload EXCEPT !["rationale"] = JStr("")]

DirectResponsesOf(judge) == ResponsesOf(judge) \cup {JsonResp(EmptyRationalePayload)}

\* The live chain did not end in a validated Score.
LiveFailure(response) ==
    \/ response.kind # "json"
    \/ JudgeScore_model_validate(response.payload[1]) = <<>>

\* json.loads + JudgeScore.model_validate on the response text.
ParseException(response) ==
    IF response.kind = "malformed" THEN "JSONDecodeError"
    ELSE IF JudgeScore_model_validate(response.payload[1]) = <<>> THEN "ValidationError"
    ELSE ""

\* What a call yields: the exception it raises or the Score it returns; sim holds
\* the text _simulate_score was applied to, if it was.
Returned(score) == [raised |-> "", score |-> <<score>>, sim |-> <<>>]

Simulated(text) == [raised |-> "", score |-> <<_simulate_score(text)>>, sim |-> <<text>>]

Raised(exc) == [raised |-> exc, score |-> <<>>, sim |-> <<>>]

\* OpenAIAcademicJudge._perform_live_evaluation (OpenAIHistoryJudge's is the same code).
OpenAICaught == {"OpenAIError", "JSONDecodeError", "ValidationError", "KeyError", "IndexError"}

OpenAI_perform_live_evaluation(response) ==
    LET exc == CASE response.kind = "error" -> "OpenAIError"
                 [] response.kind = "no_choices" -> "IndexError"
                 [] response.kind = "no_content" -> "TypeError"
                 [] OTHER -> ParseException(response)
    IN IF exc = "" THEN Returned(JudgeScore_model_validate(response.payload[1])[1])
       ELSE IF Catches(OpenAICaught, exc) THEN Simulated(<<>>)
       ELSE Raised(exc)

\* GoogleCreativeJudge._perform_live_evaluation (GoogleLiteratureJudge's is the same code).
GoogleCaught == {"JSONDecodeError", "ValidationError", "AttributeError", "KeyError"}

Google_perform_live_evaluation(response) ==
    LET exc == CASE response.kind = "error" -> "GoogleAPIError"
                 [] response.kind = "no_text" -> "ValueError"
                 [] OTHER -> ParseException(response)
    IN IF exc = "" THEN Returned(JudgeScore_model_validate(response.payload[1])[1])
       ELSE IF Catches(GoogleCaught, exc) THEN Simulated(<<>>)
       ELSE Raised(exc)

perform_live_evaluation(judge, response) ==
    IF judge.service = "openai" THEN OpenAI_perform_live_evaluation(response)
    ELSE Google_perform_live_evaluation(response)

\* The outcome of one Judge.evaluate call: live says whether the service was called.
Outcome(live, r) == [live |-> live, raised |-> r.raised, score |-> r.score, sim |-> r.sim]

\* Variant: the mode is read from the environment at each call.
evaluate_rechecks_env(judge, essay_content, response) ==
    IF ~env[CredentialOf(judge)]
    THEN Outcome(FALSE, Simulated(essay_content))
    ELSE Outcome(TRUE, perform_live_evaluation(judge, response))

\* Judge.evaluate of the four variants: `if not self.client` / `if not self.model`.
evaluate(judge, essay_content, response) ==
    IF ~judge.client
    THEN Outcome(FALSE, Simulated(essay_content))
    ELSE Outcome(TRUE, perform_live_evaluation(judge, response))

\* The history entry of one evaluate call.
CallRecord(judge, essay_content, response, out) ==
    [judge_id |-> judge.judge_id, content |-> essay_content, live |-> out.live,
     failed |-> out.live /\ LiveFailure(response), raised |-> out.raised,
     score |-> out.score]

\* The _simulate_score results one evaluate call adds to the history.
SimEntries(out) ==
    IF out.sim = <<>> THEN {} ELSE {[content |-> out.sim[1], score |-> out.score[1]]}

(***************************************************************************)
(* models.py: Essay, EssayEvaluation.                                      *)
(* judge_scores is a dict: a sequence of entries in insertion order, at    *)
(* most one entry per key.                                                 *)
(***************************************************************************)
EssayNames == <<"Ann Lee", "Bo Ray", "Cy Orr", "Di Poe">>

\* The lists of essays an evaluator can hold: sorted by student_name.
EssayInputs ==
    UNION {{[i \in 1..n |-> [student_name |-> EssayNames[i], content |-> f[i]]] :
                f \in [1..n -> Texts]} : n \in 0..MaxEssays}

\* The rank of a label under Python's string order (EssayNames is listed in it).
NameRank(student_name) == CHOOSE i \in 1..Len(EssayNames) : EssayNames[i] = student_name

RECURSIVE InsertByName(_, _)
InsertByName(s, x) ==
    IF s = <<>> THEN <<x>>
    ELSE IF NameRank(x.student_name) < NameRank(Head(s).student_name) THEN <<x>> \o s
    ELSE <<Head(s)>> \o InsertByName(Tail(s), x)

\* Variant: the list is left in the order glob yielded it.
sort_by_student_name_skipped(list) == list

\* self.essays.sort(key=lambda e: e.student_name): ascending and stable.
RECURSIVE sort_by_student_name(_)
sort_by_student_name(list) ==
    IF list = <<>> THEN <<>>
    ELSE InsertByName(sort_by_student_name(SubSeq(list, 1, Len(list) - 1)), list[Len(list)])

\* The same essays in every order a directory listing can yield them.
GlobOrders ==
    UNION {{[i \in 1..Len(l) |-> l[p[i]]] :
               p \in {q \in [1..Len(l) -> 1..Len(l)] :
                          \A i, j \in 1..Len(l) : i # j => q[i] # q[j]}} : l \in EssayInputs}

EssayEvaluation(essay) == [essay |-> essay, judge_scores |-> <<>>]

JudgeIds(ev) == {ev.judge_scores[k].judge_id : k \in 1..Len(ev.judge_scores)}

\* self.judge_scores[judge_id] = score
add_judge_score(ev, judge_id, score) ==
    LET entry == [judge_id |-> judge_id, score |-> score]
    IN [ev EXCEPT !.judge_scores =
            IF judge_id \in JudgeIds(ev)
            THEN [k \in 1..Len(@) |-> IF @[k].judge_id = judge_id THEN entry ELSE @[k]]
            ELSE Append(@, entry)]

RECURSIVE SumTotals(_)
SumTotals(entries) ==
    IF entries = <<>> THEN 0 ELSE total(Head(entries).score) + SumTotals(Tail(entries))

get_total_score(ev) == SumTotals(ev.judge_scores)

\* Variant: the total is divided by the configured number of judges.
get_average_score_by_num_judges(ev) ==
    IF ev.judge_scores = <<>> THEN [num |-> 0, den |-> 1]
    ELSE [num |-> SumTotals(ev.judge_scores), den |-> 4]

\* A float quotient is kept as numerator and denominator; 0.0 is 0/1.
get_average_score(ev) ==
    IF ev.judge_scores = <<>> THEN [num |-> 0, den |-> 1]
    ELSE [num |-> get_total_score(ev), den |-> Len(ev.judge_scores)]

(***************************************************************************)
(* settings.py: ContestConfig.  An argument is <<>> (omitted) or <<n>>.    *)
(***************************************************************************)
NUM_JUDGES == 4
NUM_WINNERS == 3

\* `arg or default`
OrDefault(arg, default) == IF arg = <<>> \/ arg[1] = 0 THEN default ELSE arg[1]

ContestConfig(num_judges, num_winners) ==
    [num_judges |-> OrDefault(num_judges, NUM_JUDGES),
     num_winners |-> OrDefault(num_winners, NUM_WINNERS)]

RECURSIVE SumOfValues(_, _)
SumOfValues(dict, keys) ==
    IF keys = <<>> THEN 0 ELSE dict[Head(keys)] + SumOfValues(dict, Tail(keys))

\* ContestConfig.get_max_score_per_judge: sum(SCORE_CATEGORIES.values())
get_max_score_per_judge == SumOfValues(SCORE_CATEGORIES, Categories)

\* Variant: the configured default number of judges is used.
get_max_total_score_default_judges(cfg) == get_max_score_per_judge * NUM_JUDGES

\* Variant: the per-judge maximum is not multiplied by the number of judges.
get_max_total_score_one_judge(cfg) == get_max_score_per_judge

\* ContestConfig.get_max_total_score
get_max_total_score(cfg) == get_max_score_per_judge * cfg.num_judges

(***************************************************************************)
(* models.py: ConsolidatedResults.                                         *)
(* sorted(evaluations, key=total, reverse=True): list.sort reverses the    *)
(* list, sorts it ascending and stable, and reverses the result.           *)
(***************************************************************************)
RECURSIVE InsertByKey(_, _)
InsertByKey(s, x) ==
    IF s = <<>> THEN <<x>>
    ELSE IF get_total_score(x) < get_total_score(Head(s)) THEN <<x>> \o s
    ELSE <<Head(s)>> \o InsertByKey(Tail(s), x)

RECURSIVE SortAscending(_)
SortAscending(s) ==
    IF s = <<>> THEN <<>>
    ELSE InsertByKey(SortAscending(SubSeq(s, 1, Len(s) - 1)), s[Len(s)])

\* Variant: sort ascending, then reverse.
sorted_by_total_reverse_unstable(evals) == Reverse(SortAscending(evals))

sorted_by_total_reverse(evals) == Reverse(SortAscending(Reverse(evals)))

ConsolidatedResults(evals, cfg) ==
    [evaluations |-> evals, config |-> cfg,
     sorted_evaluations |-> sorted_by_total_reverse(evals)]

\* Variant: every ranked entry is returned.
get_winners_all(res) ==
    [i \in 1..Len(res.sorted_evaluations) |-> <<i, res.sorted_evaluations[i]>>]

get_winners(res) ==
    LET num_winners == Min(res.config.num_winners, Len(res.sorted_evaluations))
    IN [i \in 1..num_winners |-> <<i, res.sorted_evaluations[i]>>]

(***************************************************************************)
(* llm.py: the consolidation step.                                         *)
(***************************************************************************)
\* Some ranked item lacks the score of one of the judges 1..num_judges.
LacksScore(evals, cfg) ==
    \E k \in 1..Len(evals) : \E i \in 1..cfg.num_judges : i \notin JudgeIds(evals[k])

\* _display_results: `evaluation.judge_scores.get(i, 0).total` reads .total of the
\* int 0 when judge i has no entry.
display_results_exception(res) ==
    IF LacksScore(res.sorted_evaluations, res.config) THEN "AttributeError" ELSE ""

\* _save_results: the same expression in its table of all essays.
save_results_exception(res) ==
    IF LacksScore(res.sorted_evaluations, res.config) THEN "AttributeError" ELSE ""

\* consolidate_and_determine_winners: the results, or the exception it raises.
consolidate_and_determine_winners(evals, cfg) ==
    LET res == ConsolidatedResults(evals, cfg)
        exc == IF display_results_exception(res) # "" THEN display_results_exception(res)
               ELSE save_results_exception(res)
    IN [raised |-> exc, results |-> IF exc = "" THEN <<res>> ELSE <<>>]

(***************************************************************************)
(* meta_judge.py: MetaAnalyzer.                                            *)
(***************************************************************************)
MetaResponses == {"error", "no_choices", "no_content", "text"}

\* openai.OpenAI(api_key=os.getenv("OPENAI_API_KEY")) raises without a key.
MetaAnalyzer_init_exception(e) == IF e.OPENAI_API_KEY THEN "" ELSE "OpenAIError"

\* create_analysis_prompt: `evaluation.judge_scores[i]` for every winner and every
\* judge 1..num_judges.
create_analysis_prompt_exception(res, cfg) ==
    LET w == get_winners(res)
    IN IF \E k \in 1..Len(w) : \E i \in 1..cfg.num_judges : i \notin JudgeIds(w[k][2])
       THEN "KeyError" ELSE ""

ErrorText(exc) ==
    CASE exc = "KeyError" -> "Error generating meta-analysis: KeyError"
      [] exc = "OpenAIError" -> "Error generating meta-analysis: OpenAIError"
      [] OTHER -> "Error generating meta-analysis"

_parse_analysis_response(response) ==
    CASE response = "no_choices" ->
             "Meta-analysis could not be generated: API returned no choices."
      [] response = "no_content" -> ""
      [] OTHER -> "The judges agreed on the winning essays."

\* MetaAnalyzer.analyze: everything inside `try ... except Exception`.
analyze(res, cfg, response) ==
    LET exc == IF create_analysis_prompt_exception(res, cfg) # ""
               THEN create_analysis_prompt_exception(res, cfg)
               ELSE IF response = "error" THEN "OpenAIError" ELSE ""
    IN IF exc = "" THEN Returned(_parse_analysis_response(response))
       ELSE IF Catches({"Exception"}, exc) THEN Returned(ErrorText(exc))
       ELSE Raised(exc)

\* perform_meta_analysis: analyzer = MetaAnalyzer(); analysis = analyzer.analyze(...)
perform_meta_analysis(e, res, cfg, response) ==
    IF MetaAnalyzer_init_exception(e) # "" THEN Raised(MetaAnalyzer_init_exception(e))
    ELSE analyze(res, cfg, response)

(***************************************************************************)
(* llm.py: EssayEvaluator, driven through main's steps 4 to 7: the batch   *)
(* evaluation, the reports, the consolidation, the meta-analysis.  The     *)
(* essays are those discover_essays left in self.essays.                   *)
(***************************************************************************)
\* Variant: the loop catches ValueError only.
PipelineCatches_ValueError(exc) == Catches({"ValueError"}, exc)

\* evaluate_all_essays: `except Exception as e`.
PipelineCatches(exc) == Catches({"Exception"}, exc)

PipelineVarsIdle ==
    /\ evaluations = <<>>
    /\ evaluation = <<>>
    /\ essayIdx = 1
    /\ judgeIdx = 1
    /\ config = <<>>
    /\ configArgs = <<>>
    /\ results = <<>>
    /\ winners = <<>>
    /\ analysis = <<>>
    /\ error = ""
    /\ faults = 0
    /\ callLog = <<>>

HistoryIdle ==
    /\ lastCall = <<>>
    /\ simLog = {}
    /\ nCalls = 0
    /\ addLog = <<>>
    /\ maxTotal = <<>>
    /\ summary = <<>>

\* EssayEvaluator.__init__ in an environment e; self.essays as the sort of
\* discover_essays leaves a list of Essay objects.
Init ==
    /\ env \in Envs
    /\ constructedEnv = env
    /\ judges = get_all_judges(env)
    /\ essays \in {sort_by_student_name(l) : l \in GlobOrders}
    /\ files = <<>>
    /\ pc = "evaluate"
    /\ PipelineVarsIdle
    /\ HistoryIdle
    /\ vPayload = <<>>
    /\ vResult = <<>>

\* for essay in self.essays: evaluation = EssayEvaluation(essay)
BeginEssay ==
    /\ pc = "evaluate"
    /\ evaluation = <<>>
    /\ essayIdx <= Len(essays)
    /\ evaluation' = <<EssayEvaluation(essays[essayIdx])>>
    /\ judgeIdx' = 1
    /\ UNCHANGED <<env, constructedEnv, judges, essays, evaluations, essayIdx, pc, config,
                   results, winners, analysis, error, faults, callLog, lastCall, simLog,
                   nCalls, vPayload, vResult,
                   files, addLog, maxTotal, summary, configArgs>>

\* One pass of `for judge in self.judges` with its try/except.
JudgeStep ==
    /\ pc = "evaluate"
    /\ evaluation # <<>>
    /\ judgeIdx <= Len(judges)
    /\ \E response \in ResponsesOf(judges[judgeIdx]) :
          LET judge == judges[judgeIdx]
              content == essays[essayIdx].content
              out == evaluate(judge, content, response)
              fault == out.live /\ LiveFailure(response)
          IN /\ fault => faults < MaxFaults
             /\ faults' = IF fault THEN faults + 1 ELSE faults
             /\ lastCall' = <<CallRecord(judge, content, response, out)>>
             /\ simLog' = simLog \cup SimEntries(out)
             /\ callLog' = Append(callLog, [item |-> essayIdx, judge_id |-> judge.judge_id,
                                            raised |-> out.raised # ""])
             /\ IF out.raised = ""
                THEN /\ evaluation' = <<add_judge_score(evaluation[1], judge.judge_id, out.score[1])>>
                     /\ judgeIdx' = judgeIdx + 1
                     /\ UNCHANGED <<pc, error>>
                ELSE IF PipelineCatches(out.raised)
                THEN /\ judgeIdx' = judgeIdx + 1
                     /\ UNCHANGED <<evaluation, pc, error>>
                ELSE /\ pc' = "failed"
                     /\ error' = out.raised
                     /\ UNCHANGED <<evaluation, judgeIdx>>
    /\ UNCHANGED <<env, constructedEnv, judges, essays, evaluations, essayIdx, config,
                   results, winners, analysis, nCalls, vPayload, vResult,
                   files, addLog, maxTotal, summary, configArgs>>

\* self.evaluations.append(evaluation)
AppendEvaluation ==
    /\ pc = "evaluate"
    /\ evaluation # <<>>
    /\ judgeIdx > Len(judges)
    /\ evaluations' = Append(evaluations, evaluation[1])
    /\ evaluation' = <<>>
    /\ essayIdx' = essayIdx + 1
    /\ UNCHANGED <<env, constructedEnv, judges, essays, judgeIdx, pc, config, results,
                   winners, analysis, error, faults, callLog, lastCall, simLog, nCalls,
                   vPayload, vResult,
                   files, addLog, maxTotal, summary, configArgs>>

\* evaluate_all_essays returns; main stops when it returned no evaluations.
EvaluateReturn ==
    /\ pc = "evaluate"
    /\ evaluation = <<>>
    /\ essayIdx > Len(essays)
    /\ pc' = IF evaluations = <<>> THEN "exit" ELSE "reports"
    /\ UNCHANGED <<env, constructedEnv, judges, essays, evaluations, evaluation, essayIdx,
                   judgeIdx, config, results, winners, analysis, error, faults, callLog,
                   lastCall, simLog, nCalls, vPayload, vResult,
                   files, addLog, maxTotal, summary, configArgs>>

\* A float quotient a is below a float quotient b.
AverageLess(a, b) == a.num * b.den < b.num * a.den

RECURSIVE InsertByAverage(_, _)
InsertByAverage(s, x) ==
    IF s = <<>> THEN <<x>>
    ELSE IF AverageLess(get_average_score(x), get_average_score(Head(s))) THEN <<x>> \o s
    ELSE <<Head(s)>> \o InsertByAverage(Tail(s), x)

RECURSIVE SortAscendingByAverage(_)
SortAscendingByAverage(s) ==
    IF s = <<>> THEN <<>>
    ELSE InsertByAverage(SortAscendingByAverage(SubSeq(s, 1, Len(s) - 1)), s[Len(s)])

\* sorted(self.evaluations, key=lambda e: e.get_average_score(), reverse=True)
sorted_by_average_reverse(evals) == Reverse(SortAscendingByAverage(Reverse(evals)))

\* save_summary_report: the evaluations in the order of the table's rows (row 1 is
\* the highlighted one), or None when there are no evaluations.
save_summary_report(evals) ==
    IF evals = <<>> THEN <<>> ELSE <<sorted_by_average_reverse(evals)>>

\* main step 5: save_summary_report and save_judge_reports write files.
SaveReports ==
    /\ pc = "reports"
    /\ summary' = save_summary_report(evaluations)
    /\ pc' = "consolidate"
    /\ UNCHANGED <<env, constructedEnv, judges, essays, evaluations, evaluation, essayIdx,
                   judgeIdx, config, results, winners, analysis, error, faults, callLog,
                   lastCall, simLog, nCalls, vPayload, vResult,
                   files, addLog, maxTotal, configArgs>>

\* The num_winners arguments a caller passes: omitted, or 0..MaxWinnersArg.
WinnerArgs == {<<>>} \cup {<<n>> : n \in 0..MaxWinnersArg}

\* main step 6: consolidate_and_determine_winners(evaluations, contest_config) with
\* contest_config = ContestConfig(num_judges=len(evaluator.judges)).
Consolidate ==
    /\ pc = "consolidate"
    /\ \E num_winners \in WinnerArgs :
          LET cfg == ContestConfig(<<Len(judges)>>, num_winners)
              r == consolidate_and_determine_winners(evaluations, cfg)
          IN /\ config' = <<cfg>>
             /\ configArgs' = <<[num_judges |-> <<Len(judges)>>, num_winners |-> num_winners]>>
             /\ results' = r.results
             /\ error' = r.raised
             /\ pc' = IF r.raised = "" THEN "meta" ELSE "failed"
    /\ UNCHANGED <<env, constructedEnv, judges, essays, evaluations, evaluation, essayIdx,
                   judgeIdx, winners, analysis, faults, callLog, lastCall, simLog, nCalls,
                   vPayload, vResult,
                   files, addLog, maxTotal, summary>>

\* A caller that builds ConsolidatedResults(evaluations, config, output_dir) itself.
ConsolidatedResultsInit ==
    /\ pc = "consolidate"
    /\ \E num_winners \in WinnerArgs :
          LET cfg == ContestConfig(<<Len(judges)>>, num_winners)
          IN /\ config' = <<cfg>>
             /\ configArgs' = <<[num_judges |-> <<Len(judges)>>, num_winners |-> num_winners]>>
             /\ results' = <<ConsolidatedResults(evaluations, cfg)>>
    /\ pc' = "meta"
    /\ UNCHANGED <<env, constructedEnv, judges, essays, evaluations, evaluation, essayIdx,
                   judgeIdx, winners, analysis, error, faults, callLog, lastCall, simLog,
                   nCalls, vPayload, vResult,
                   files, addLog, maxTotal, summary>>

\* main step 7 and the final summary: perform_meta_analysis(results, contest_config),
\* then winners = results.get_winners().
MetaAnalysis ==
    /\ pc = "meta"
    /\ \E response \in MetaResponses :
          LET r == perform_meta_analysis(env, results[1], config[1], response)
          IN IF r.raised = ""
             THEN /\ analysis' = r.score
                  /\ winners' = <<get_winners(results[1])>>
                  /\ pc' = "done"
                  /\ UNCHANGED error
             ELSE /\ error' = r.raised
                  /\ pc' = "failed"
                  /\ UNCHANGED <<analysis, winners>>
    /\ UNCHANGED <<env, constructedEnv, judges, essays, evaluations, evaluation, essayIdx,
                   judgeIdx, config, results, faults, callLog, lastCall, simLog, nCalls,
                   vPayload, vResult,
                   files, addLog, maxTotal, summary, configArgs>>

Next ==
    \/ BeginEssay
    \/ JudgeStep
    \/ AppendEvaluation
    \/ EvaluateReturn
    \/ SaveReports
    \/ Consolidate
    \/ ConsolidatedResultsInit
    \/ MetaAnalysis

Spec == Init /\ [][Next]_vars

(***************************************************************************)
(* SpecJudge: the judges of one evaluator called directly, any judge on    *)
(* any text, while the environment's credentials come and go.              *)
(***************************************************************************)
InitJudge ==
    /\ env \in Envs
    /\ constructedEnv = env
    /\ judges = get_all_judges(env)
    /\ essays = <<>>
    /\ files = <<>>
    /\ pc = "judge"
    /\ PipelineVarsIdle
    /\ HistoryIdle
    /\ vPayload = <<>>
    /\ vResult = <<>>

\* The environment sets or unsets a credential.
SetEnv ==
    /\ pc = "judge"
    /\ \E k \in {"OPENAI_API_KEY", "GOOGLE_API_KEY"} : env' = [env EXCEPT ![k] = ~@]
    /\ UNCHANGED <<constructedEnv, judges, essays, evaluations, evaluation, essayIdx,
                   judgeIdx, pc, config, results, winners, analysis, error, faults,
                   callLog, lastCall, simLog, nCalls, vPayload, vResult,
                   files, addLog, maxTotal, summary, configArgs>>

\* judge.evaluate(essay_content, student_name)
JudgeEvaluate ==
    /\ pc = "judge"
    /\ nCalls < MaxCalls
    /\ \E j \in 1..Len(judges) : \E essay_content \in Texts :
       \E response \in ResponsesOf(judges[j]) :
          LET out == evaluate(judges[j], essay_content, response)
          IN /\ lastCall' = <<CallRecord(judges[j], essay_content, response, out)>>
             /\ simLog' = simLog \cup SimEntries(out)
    /\ nCalls' = nCalls + 1
    /\ UNCHANGED <<env, constructedEnv, judges, essays, evaluations, evaluation, essayIdx,
                   judgeIdx, pc, config, results, winners, analysis, error, faults,
                   callLog, vPayload, vResult,
                   files, addLog, maxTotal, summary, configArgs>>

NextJudge == SetEnv \/ JudgeEvaluate

SpecJudge == InitJudge /\ [][NextJudge]_vars

(***************************************************************************)
(* SpecDirect: the judges called directly where the service may also       *)
(* answer with an empty rationale.                                         *)
(***************************************************************************)
JudgeEvaluateDirect ==
    /\ pc = "judge"
    /\ nCalls < MaxCalls
    /\ \E j \in 1..Len(judges) : \E essay_content \in Texts :
       \E response \in DirectResponsesOf(judges[j]) :
          LET out == evaluate(judges[j], essay_content, response)
          IN /\ lastCall' = <<CallRecord(judges[j], essay_content, response, out)>>
             /\ simLog' = simLog \cup SimEntries(out)
    /\ nCalls' = nCalls + 1
    /\ UNCHANGED <<env, constructedEnv, judges, essays, evaluations, evaluation, essayIdx,
                   judgeIdx, pc, config, results, winners, analysis, error, faults,
                   callLog, vPayload, vResult, files, addLog, maxTotal, summary, configArgs>>

NextDirect == JudgeEvaluateDirect

SpecDirect == InitJudge /\ [][NextDirect]_vars

(***************************************************************************)
(* SpecValidate: JudgeScore.model_validate applied to a payload.           *)
(***************************************************************************)
Missing == [t |-> "missing", n |-> 0, s |-> ""]

\* The values a payload may hold under key k (Missing: the key is absent).
PayloadValues(k) ==
    IF k \in CategorySet
    THEN {Missing, JNull, JInt(0), JInt(1), JInt(SCORE_CATEGORIES[k]),
          JInt(SCORE_CATEGORIES[k] + 1)}
    ELSE IF k = "rationale" THEN {Missing, JNull, JStr(""), JStr("Good work.")}
    ELSE {Missing, JInt(5)}

PayloadKeys == CategorySet \cup {"rationale", "bonus"}

Payloads ==
    {[k \in {x \in PayloadKeys : f[x] # Missing} |-> f[k]] :
        f \in {g \in [PayloadKeys -> UNION {PayloadValues(k) : k \in PayloadKeys}] :
                  \A k \in PayloadKeys : g[k] \in PayloadValues(k)}}

InitValidate ==
    /\ env = [OPENAI_API_KEY |-> FALSE, GOOGLE_API_KEY |-> FALSE]
    /\ constructedEnv = env
    /\ judges = get_all_judges(env)
    /\ essays = <<>>
    /\ files = <<>>
    /\ pc = "validate"
    /\ PipelineVarsIdle
    /\ HistoryIdle
    /\ vPayload \in {<<p>> : p \in Payloads}
    /\ vResult = <<>>

\* JudgeScore.model_validate(payload)
Validate ==
    /\ pc = "validate"
    /\ vResult' = <<JudgeScore_model_validate(vPayload[1])>>
    /\ pc' = "validated"
    /\ UNCHANGED <<env, constructedEnv, judges, essays, evaluations, evaluation, essayIdx,
                   judgeIdx, config, results, winners, analysis, error, faults, callLog,
                   lastCall, simLog, nCalls, vPayload,
                   files, addLog, maxTotal, summary, configArgs>>

NextValidate == Validate

SpecValidate == InitValidate /\ [][NextValidate]_vars

(***************************************************************************)
(* SpecItem: one EssayEvaluation under direct add_judge_score calls, any   *)
(* judge id with any Score, in any order.                                  *)
(***************************************************************************)
MaxAdds == 3

\* Scores a judge can hand over: one from a live response, two simulated ones.
ItemScores ==
    {JudgeScore_model_validate(ValidPayload)[1], _simulate_score(<<>>), _simulate_score(<<"a">>)}

InitItem ==
    /\ env = [OPENAI_API_KEY |-> FALSE, GOOGLE_API_KEY |-> FALSE]
    /\ constructedEnv = env
    /\ judges = get_all_judges(env)
    /\ essays \in {<<[student_name |-> EssayNames[1], content |-> t]>> : t \in Texts}
    /\ files = <<>>
    /\ evaluations = <<>>
    /\ evaluation = <<EssayEvaluation(essays[1])>>
    /\ essayIdx = 1
    /\ judgeIdx = 1
    /\ pc = "item"
    /\ config = <<>>
    /\ configArgs = <<>>
    /\ results = <<>>
    /\ winners = <<>>
    /\ analysis = <<>>
    /\ error = ""
    /\ faults = 0
    /\ callLog = <<>>
    /\ HistoryIdle
    /\ vPayload = <<>>
    /\ vResult = <<>>

\* evaluation.add_judge_score(judge_id, score)
AddJudgeScore ==
    /\ pc = "item"
    /\ Len(addLog) < MaxAdds
    /\ \E judge_id \in 1..Len(judges) : \E score \in ItemScores :
          /\ evaluation' = <<add_judge_score(evaluation[1], judge_id, score)>>
          /\ addLog' = Append(addLog, [judge_id |-> judge_id, score |-> score])
    /\ UNCHANGED <<env, constructedEnv, judges, essays, evaluations, essayIdx, judgeIdx, pc,
                   config, results, winners, analysis, error, faults, callLog, lastCall,
                   simLog, nCalls, vPayload, vResult, files, maxTotal, summary, configArgs>>

NextItem == AddJudgeScore

SpecItem == InitItem /\ [][NextItem]_vars

(***************************************************************************)
(* SpecConsolidate: ConsolidatedResults built, and built again, from a     *)
(* finished collection of EssayEvaluations and a ContestConfig.            *)
(***************************************************************************)
MaxJudgesArg == 4

\* The num_judges arguments a caller passes: omitted, or 0..MaxJudgesArg.
JudgeArgs == {<<>>} \cup {<<n>> : n \in 0..MaxJudgesArg}

RECURSIVE AddAll(_, _)
AddAll(ev, adds) ==
    IF adds = <<>> THEN ev
    ELSE AddAll(add_judge_score(ev, Head(adds)[1], Head(adds)[2]), Tail(adds))

\* The add_judge_score calls an item of a finished batch has received: judges whose
\* call raised are missing.
ItemAdds ==
    LET live == JudgeScore_model_validate(ValidPayload)[1]
        sim == _simulate_score(<<>>)
    IN {<<>>, <<<<1, live>>>>, <<<<2, sim>>>>, <<<<1, live>>, <<2, sim>>>>,
        <<<<1, sim>>, <<2, live>>>>}

\* The collections of up to MaxEssays scored items an evaluator returns.
ScoredCollections ==
    UNION {{[i \in 1..n |->
                AddAll(EssayEvaluation([student_name |-> EssayNames[i], content |-> <<>>]), f[i])] :
                f \in [1..n -> ItemAdds]} : n \in 0..MaxEssays}

InitConsolidate ==
    /\ env = [OPENAI_API_KEY |-> FALSE, GOOGLE_API_KEY |-> FALSE]
    /\ constructedEnv = env
    /\ judges = get_all_judges(env)
    /\ essays = <<>>
    /\ files = <<>>
    /\ evaluations \in ScoredCollections
    /\ evaluation = <<>>
    /\ essayIdx = 1
    /\ judgeIdx = 1
    /\ pc = "collected"
    /\ \E nj \in JudgeArgs, nw \in WinnerArgs :
          /\ configArgs = <<[num_judges |-> nj, num_winners |-> nw]>>
          /\ config = <<ContestConfig(nj, nw)>>
    /\ results = <<>>
    /\ winners = <<>>
    /\ analysis = <<>>
    /\ error = ""
    /\ faults = 0
    /\ callLog = <<>>
    /\ HistoryIdle
    /\ vPayload = <<>>
    /\ vResult = <<>>

\* Variant: the input list is sorted in place (evaluations.sort(...)).
BuildResults_sorting_in_place ==
    /\ pc \in {"collected", "built"}
    /\ evaluations' = sorted_by_total_reverse(evaluations)
    /\ results' = <<ConsolidatedResults(evaluations', config[1])>>
    /\ winners' = <<get_winners(results'[1])>>
    /\ maxTotal' = <<get_max_total_score(config[1])>>
    /\ pc' = IF pc = "collected" THEN "built" ELSE "rebuilt"
    /\ UNCHANGED <<env, constructedEnv, judges, essays, evaluation, essayIdx, judgeIdx,
                   config, analysis, error, faults, callLog, lastCall, simLog, nCalls,
                   vPayload, vResult, files, addLog, summary, configArgs>>

\* results = ConsolidatedResults(evaluations, config, output_dir), then
\* results.get_winners() and config.get_max_total_score(); a second time on the same
\* evaluations and config.
BuildResults ==
    /\ pc \in {"collected", "built"}
    /\ results' = <<ConsolidatedResults(evaluations, config[1])>>
    /\ winners' = <<get_winners(results'[1])>>
    /\ maxTotal' = <<get_max_total_score(config[1])>>
    /\ pc' = IF pc = "collected" THEN "built" ELSE "rebuilt"
    /\ UNCHANGED <<env, constructedEnv, judges, essays, evaluations, evaluation, essayIdx,
                   judgeIdx, config, analysis, error, faults, callLog, lastCall, simLog,
                   nCalls, vPayload, vResult, files, addLog, summary, configArgs>>

NextConsolidate == BuildResults

SpecConsolidate == InitConsolidate /\ [][NextConsolidate]_vars

(***************************************************************************)
(* SpecDiscover: main step 3, evaluator.discover_essays() on a directory.  *)
(* A directory entry matching *.txt is [stem, is_file, data]; data is the  *)
(* file's text over a letter and a blank.                                  *)
(***************************************************************************)
MaxFileLen == 3

\* File stems, and what lines 25-36 of Essay.__init__ make of each: re.findall
\* splits "annLee" into "ann", "Lee", capitalize and join give "Ann Lee".
Stems == <<"annLee", "boRay", "cyOrr", "diPoe">>

student_name_of(stem) == EssayNames[CHOOSE i \in 1..Len(Stems) : Stems[i] = stem]

FileTexts == SeqsUpTo({"a", " "}, MaxFileLen)

\* str.strip()
RECURSIVE strip(_)
strip(text) ==
    IF text = <<>> THEN <<>>
    ELSE IF Head(text) = " " THEN strip(Tail(text))
    ELSE IF text[Len(text)] = " " THEN strip(SubSeq(text, 1, Len(text) - 1))
    ELSE text

\* utils.count_words: len(text.split())
count_words(text) ==
    Cardinality({i \in 1..Len(text) : text[i] # " " /\ (i = 1 \/ text[i - 1] = " ")})

\* utils.validate_essay_file for an entry glob("*.txt") yielded.
validate_essay_file(f) == f.is_file /\ Len(f.data) > 0

\* settings.py: the fields class Settings declares, with their defaults.
Settings ==
    [OPENAI_API_KEY |-> "", GOOGLE_API_KEY |-> "", ANTHROPIC_API_KEY |-> "",
     LANGCHAIN_API_KEY |-> <<>>, WANDB_API_KEY |-> <<>>, MODEL_NAME |-> "gpt-4o-mini",
     NUM_JUDGES |-> NUM_JUDGES, NUM_WINNERS |-> NUM_WINNERS, VERBOSE |-> TRUE]

\* settings.<name>: the value of a declared field; any other name raises
\* AttributeError.
settings_getattr(name) ==
    IF name \in DOMAIN Settings THEN Returned(Settings[name]) ELSE Raised("AttributeError")

\* Essay.__init__(filepath): the Essay, or the exception it raises.
Essay_init(f) ==
    LET student_name == student_name_of(f.stem)
        content == strip(f.data)
        word_count == count_words(content)
        limit == settings_getattr("MAX_WORD_COUNT")
    IN IF limit.raised # "" THEN Raised(limit.raised)
       ELSE Returned([student_name |-> student_name, content |-> content,
                      word_count |-> word_count,
                      is_disqualified |-> word_count > limit.score[1]])

\* EssayEvaluator.discover_essays: self.essays, or the exception that leaves it.
discover_essays(dir) ==
    LET txt_files == SelectSeq(dir, validate_essay_file)
        built == [i \in 1..Len(txt_files) |-> Essay_init(txt_files[i])]
        failed == {i \in 1..Len(built) : built[i].raised # ""}
    IN IF failed # {}
       THEN Raised(built[CHOOSE i \in failed : \A j \in failed : i <= j].raised)
       ELSE Returned(sort_by_student_name([i \in 1..Len(built) |-> built[i].score[1]]))

\* The directories: up to MaxEssays entries with different names, in glob's order.
Directories ==
    LET entries == [stem : {Stems[i] : i \in 1..Len(Stems)}, is_file : BOOLEAN,
                    data : FileTexts]
    IN {d \in SeqsUpTo(entries, MaxEssays) :
           \A i, j \in 1..Len(d) : i # j => d[i].stem # d[j].stem}

\* main up to step 3: load_environment passed, so both credentials are set.
InitDiscover ==
    /\ env = [OPENAI_API_KEY |-> TRUE, GOOGLE_API_KEY |-> TRUE]
    /\ constructedEnv = env
    /\ judges = get_all_judges(env)
    /\ essays = <<>>
    /\ files \in Directories
    /\ pc = "discover"
    /\ PipelineVarsIdle
    /\ HistoryIdle
    /\ vPayload = <<>>
    /\ vResult = <<>>

\* essays = evaluator.discover_essays(); main returns when there are none and
\* exits with status 1 on an exception.
DiscoverEssays ==
    /\ pc = "discover"
    /\ LET r == discover_essays(files)
       IN IF r.raised # ""
          THEN /\ error' = r.raised
               /\ pc' = "failed"
               /\ UNCHANGED essays
          ELSE /\ essays' = r.score[1]
               /\ pc' = IF r.score[1] = <<>> THEN "exit" ELSE "evaluate"
               /\ UNCHANGED error
    /\ UNCHANGED <<env, constructedEnv, judges, evaluations, evaluation, essayIdx, judgeIdx,
                   config, results, winners, analysis, faults, callLog, lastCall, simLog,
                   nCalls, vPayload, vResult, files, addLog, maxTotal, summary, configArgs>>

NextDiscover == DiscoverEssays

SpecDiscover == InitDiscover /\ [][NextDiscover]_vars

(***************************************************************************)
(* SpecInterrupt: the batch evaluation with a whole-process interrupt.     *)
(* KeyboardInterrupt is no Exception: it passes the loop's handler, ends   *)
(* evaluate_all_essays and reaches main's `except KeyboardInterrupt`.      *)
(***************************************************************************)
Interrupt ==
    /\ pc = "evaluate"
    /\ ~PipelineCatches("KeyboardInterrupt")
    /\ pc' = "interrupted"
    /\ error' = "KeyboardInterrupt"
    /\ evaluation' = <<>>
    /\ UNCHANGED <<env, constructedEnv, judges, essays, evaluations, essayIdx, judgeIdx,
                   config, results, winners, analysis, faults, callLog, lastCall, simLog,
                   nCalls, vPayload, vResult, files, addLog, maxTotal, summary, configArgs>>

NextInterrupt ==
    \/ BeginEssay
    \/ JudgeStep
    \/ AppendEvaluation
    \/ EvaluateReturn
    \/ Interrupt

SpecInterrupt == Init /\ [][NextInterrupt]_vars

(***************************************************************************)
(* SpecRerun: one EssayEvaluator whose caller calls evaluate_all_essays    *)
(* again, and discover_essays between the calls.  The judges are those of  *)
(* an environment without credentials.                                     *)
(***************************************************************************)
MaxEvaluations == 4

InitRerun ==
    /\ env = [OPENAI_API_KEY |-> FALSE, GOOGLE_API_KEY |-> FALSE]
    /\ constructedEnv = env
    /\ judges = get_all_judges(env)
    /\ essays \in {sort_by_student_name(l) : l \in GlobOrders}
    /\ files = <<>>
    /\ pc = "evaluate"
    /\ PipelineVarsIdle
    /\ HistoryIdle
    /\ vPayload = <<>>
    /\ vResult = <<>>

\* evaluate_all_essays returns to a caller that keeps the evaluator: `return []`
\* when there are no essays, `return self.evaluations` after the loop.
EvaluateAllEssaysReturn ==
    /\ pc = "evaluate"
    /\ evaluation = <<>>
    /\ essayIdx > Len(essays)
    /\ pc' = "returned"
    /\ UNCHANGED <<env, constructedEnv, judges, essays, evaluations, evaluation, essayIdx,
                   judgeIdx, config, results, winners, analysis, error, faults, callLog,
                   lastCall, simLog, nCalls, vPayload, vResult, files, addLog, maxTotal, summary, configArgs>>

\* The next evaluator.evaluate_all_essays() call begins: the loop starts over at the
\* first essay, and self.evaluations is what the calls before left.
EvaluateAgain ==
    /\ pc \in {"returned", "discovered"}
    /\ Len(evaluations) + Len(essays) <= MaxEvaluations
    /\ pc' = "evaluate"
    /\ essayIdx' = 1
    /\ UNCHANGED <<env, constructedEnv, judges, essays, evaluations, evaluation, judgeIdx,
                   config, results, winners, analysis, error, faults, callLog, lastCall,
                   simLog, nCalls, vPayload, vResult, files, addLog, maxTotal, summary, configArgs>>

\* evaluator.discover_essays() between two evaluations, on any directory: it assigns
\* self.essays, or raises before the assignment.
Rediscover ==
    /\ pc = "returned"
    /\ \E dir \in Directories :
          LET r == discover_essays(dir)
          IN IF r.raised # ""
             THEN /\ error' = r.raised
                  /\ pc' = "failed"
                  /\ UNCHANGED essays
             ELSE /\ essays' = r.score[1]
                  /\ pc' = "discovered"
                  /\ UNCHANGED error
    /\ UNCHANGED <<env, constructedEnv, judges, evaluations, evaluation, essayIdx, judgeIdx,
                   config, results, winners, analysis, faults, callLog, lastCall, simLog,
                   nCalls, vPayload, vResult, files, addLog, maxTotal, summary, configArgs>>

NextRerun ==
    \/ BeginEssay
    \/ JudgeStep
    \/ AppendEvaluation
    \/ EvaluateAllEssaysReturn
    \/ EvaluateAgain
    \/ Rediscover

SpecRerun == InitRerun /\ [][NextRerun]_vars

(***************************************************************************)
(* The claims.                                                             *)
(***************************************************************************)
\* The judge lastCall is about.
LastJudge == judges[lastCall[1].judge_id]

\* C1: for every judge variant and every item text, evaluate never raises to its
\* caller: whatever goes wrong inside the live call, a Score is returned.
C1_EvaluateNeverRaises ==
    lastCall # <<>> => (lastCall[1].raised = "" /\ lastCall[1].score # <<>>)

\* Every evaluate call of the batch raised, and there was at least one.
EveryCallLost ==
    /\ callLog # <<>>
    /\ \A k \in 1..Len(callLog) : callLog[k].raised

\* C2: a run in which every (item, judge) evaluate call is lost still completes:
\* after evaluation, consolidate_and_determine_winners finishes without an error,
\* every item has total score 0 and the ranking holds every item.
C2_LostRunCompletes ==
    (EveryCallLost /\ pc \in {"meta", "done", "failed"}) =>
        /\ error = ""
        /\ results # <<>>
        /\ Len(results[1].sorted_evaluations) = Len(essays)
        /\ \A k \in 1..Len(evaluations) : get_total_score(evaluations[k]) = 0

\* The pipeline's call of judge j on item e, as logged.
CallsOf(e, j) == {k \in 1..Len(callLog) : callLog[k].item = e /\ callLog[k].judge_id = j}

\* C3: in evaluate_all_essays an exception escaping evaluate for one (item, judge)
\* pair omits only that pair's score: every judge is still invoked for every item,
\* the returned list has one Scored Item per input item, in order, holding exactly
\* the scores of the calls that did not raise; an item for which every judge raised
\* has no score and average_score 0.0.
C3_FailureOmitsOnlyThatScore ==
    pc # "evaluate" =>
        /\ Len(evaluations) = Len(essays)
        /\ \A e \in 1..Len(essays) :
              /\ evaluations[e].essay = essays[e]
              /\ \A j \in 1..Len(judges) :
                    /\ Cardinality(CallsOf(e, j)) = 1
                    /\ j \in JudgeIds(evaluations[e])
                           <=> \A k \in CallsOf(e, j) : ~callLog[k].raised
              /\ (\A j \in 1..Len(judges) : \A k \in CallsOf(e, j) : callLog[k].raised)
                    => /\ evaluations[e].judge_scores = <<>>
                       /\ get_average_score(evaluations[e]) = [num |-> 0, den |-> 1]

\* One item lost every judge call, the batch went on and the other item was scored
\* by all four judges.
C3_Witness ==
    /\ pc = "reports"
    /\ Len(evaluations) = 2
    /\ evaluations[1].judge_scores = <<>>
    /\ \A k \in 1..Len(judges) : callLog[k].item = 1 /\ callLog[k].raised
    /\ Len(evaluations[2].judge_scores) = Len(judges)

\* C4: the ranked sequence is the input scored items ordered by total_score
\* descending, and items with equal total_score keep their relative input order.
C4_RankingStableDescending ==
    results # <<>> =>
        LET input == results[1].evaluations
            ranked == results[1].sorted_evaluations
            n == Len(input)
        IN /\ input = evaluations
           /\ Len(ranked) = n
           /\ \E p \in [1..n -> 1..n] :
                 /\ \A i, j \in 1..n : i # j => p[i] # p[j]
                 /\ \A i \in 1..n : ranked[i] = input[p[i]]
                 /\ \A i, j \in 1..n : i < j =>
                       \/ get_total_score(ranked[i]) > get_total_score(ranked[j])
                       \/ /\ get_total_score(ranked[i]) = get_total_score(ranked[j])
                          /\ p[i] < p[j]

\* Two different items with the same total were ranked.
C4_Witness ==
    /\ results # <<>>
    /\ Len(evaluations) = 2
    /\ evaluations[1] # evaluations[2]
    /\ get_total_score(evaluations[1]) = get_total_score(evaluations[2])
    /\ get_total_score(evaluations[1]) > 0
    /\ results[1].sorted_evaluations = evaluations

\* C5: get_winners returns exactly the first min(num_winners, number of ranked
\* items) entries of the ranked sequence, in rank order, the i-th tagged with place
\* i; never more entries than there are scored items.
C5_WinnersClamped ==
    winners # <<>> =>
        LET ranked == results[1].sorted_evaluations
            n == Min(config[1].num_winners, Len(ranked))
        IN /\ Len(winners[1]) = IF n < 0 THEN 0 ELSE n
           /\ Len(winners[1]) <= Len(evaluations)
           /\ \A i \in 1..Len(winners[1]) : winners[1][i] = <<i, ranked[i]>>

\* Three winners were asked for and two items were scored.
C5_Witness ==
    /\ winners # <<>>
    /\ config[1].num_winners = 3
    /\ Len(evaluations) = 2
    /\ Len(winners[1]) = 2

\* C6: fallback scoring is a function of the text's length only: any two
\* _simulate_score results for texts of equal length, whatever calls came before
\* and on whatever judge, have the same category values and the sentinel rationale.
C6_FallbackDependsOnLengthOnly ==
    \A a, b \in simLog :
        /\ a.score.rationale = SIMULATED_RATIONALE
        /\ Len(a.content) = Len(b.content) => a.score = b.score

\* Two different texts of the same length were scored by simulation, the second
\* after an earlier call.
C6_Witness ==
    /\ nCalls >= 2
    /\ \E a, b \in simLog : a.content # b.content /\ Len(a.content) = Len(b.content)

\* C7: a judge constructed while its credential is absent is fallback-only for its
\* lifetime: its client stays None, and every evaluate call on it returns the
\* simulated score of the given text without a service call, whatever the
\* environment holds at the time of the call.
C7_FallbackOnlyForLifetime ==
    /\ \A j \in 1..Len(judges) :
          ~constructedEnv[CredentialOf(judges[j])] => ~judges[j].client
    /\ (lastCall # <<>> /\ ~constructedEnv[CredentialOf(LastJudge)]) =>
          /\ ~lastCall[1].live
          /\ lastCall[1].raised = ""
          /\ lastCall[1].score = <<_simulate_score(lastCall[1].content)>>

\* A judge constructed without its credential was called after the credential had
\* become available.
C7_Witness ==
    /\ lastCall # <<>>
    /\ ~constructedEnv[CredentialOf(LastJudge)]
    /\ env[CredentialOf(LastJudge)]
    /\ lastCall[1].content # <<>>

\* C8: for a live judge, on any failure in the live chain (transport error,
\* non-JSON text, missing or out-of-range field) evaluate returns the fallback Score
\* computed for the empty string.
C8_LiveFailureReturnsEmptyFallback ==
    (lastCall # <<>> /\ lastCall[1].live /\ lastCall[1].failed) =>
        /\ lastCall[1].raised = ""
        /\ lastCall[1].score = <<_simulate_score(<<>>)>>

C10_MetaAnalysisNeverRaises ==
    (results # <<>> /\ pc \in {"done", "failed"}) =>
        /\ error = ""
        /\ analysis # <<>>
        /\ pc = "done"

\* The category values of the Scores an item holds, added up entry by entry.
RECURSIVE HeldCategorySum(_, _)
HeldCategorySum(ev, k) ==
    IF k = 0 THEN 0
    ELSE LET sc == ev.judge_scores[k].score
         IN sc.effectiveness + sc.creativity + sc.scholarship + sc.effort
                + HeldCategorySum(ev, k - 1)

\* C11: for every Scored Item in every state, total_score is the sum of the totals
\* of the Scores it holds, and average_score is total_score divided by the number
\* of held Scores, or 0 when it holds none.
C11_TotalAndAverage ==
    evaluation # <<>> =>
        LET ev == evaluation[1]
            held == Cardinality(JudgeIds(ev))
            avg == get_average_score(ev)
        IN /\ get_total_score(ev) = HeldCategorySum(ev, Len(ev.judge_scores))
           /\ Len(ev.judge_scores) = held
           /\ IF held = 0 THEN avg.num = 0
              ELSE avg.num * held = HeldCategorySum(ev, Len(ev.judge_scores)) * avg.den

\* An item holds two Scores with different totals after three add_judge_score
\* calls, one of which replaced a Score.
C11_Witness ==
    /\ pc = "item"
    /\ Len(addLog) = 3
    /\ Len(evaluation[1].judge_scores) = 2
    /\ total(evaluation[1].judge_scores[1].score) # total(evaluation[1].judge_scores[2].score)

C14_MaxTotalScore ==
    maxTotal # <<>> =>
        /\ get_max_score_per_judge = 25 + 25 + 25 + 10
        /\ maxTotal[1] = 85 * config[1].num_judges
        /\ config[1].num_judges = 4 => maxTotal[1] = 340

\* The maximum was computed for a config of four judges and for one of two.
C14_Witness ==
    /\ maxTotal # <<>>
    /\ config[1].num_judges = 2
    /\ maxTotal[1] = 170

\* C20: a Scored Item's mapping changes only by appending: under any sequence of
\* add_judge_score calls no stored Score is removed or replaced (every Score handed
\* over is still held under its judge id), each judge id holds at most one Score,
\* and the entries are in the order of the calls.
C20_AppendOnly ==
    (pc = "item" /\ evaluation # <<>>) =>
        LET js == evaluation[1].judge_scores
        IN /\ \A k \in 1..Len(addLog) : \E i \in 1..Len(js) : js[i] = addLog[k]
           /\ \A i, j \in 1..Len(js) : i # j => js[i].judge_id # js[j].judge_id
           /\ js = addLog

\* The directory entries discovery accepts whose word count exceeds the limit l.
OverLimit(l) ==
    {k \in 1..Len(files) :
        validate_essay_file(files[k]) /\ count_words(strip(files[k].data)) > l}

\* C13: disqualification is informational only: an item whose word count exceeds
\* the limit, whatever the limit is, is still an item of the batch that every judge
\* evaluates and the ranking holds: discovery ends without an error and leaves the
\* item, with its text, in self.essays.
C13_DisqualifiedStillEvaluated ==
    pc # "discover" =>
        \A l \in 0..MaxFileLen : \A k \in OverLimit(l) :
            /\ error = ""
            /\ pc = "evaluate"
            /\ \E e \in 1..Len(essays) :
                  /\ essays[e].student_name = student_name_of(files[k].stem)
                  /\ essays[e].content = strip(files[k].data)

\* C15: a whole-process interrupt in the middle of a batch discards no score that
\* was appended before it: every score a judge produced and that was appended to
\* its Scored Item is in the evaluator's evaluations afterwards, the scores of the
\* item that was being evaluated included.
C15_InterruptKeepsAppendedScores ==
    pc = "interrupted" =>
        \A k \in 1..Len(callLog) :
            ~callLog[k].raised =>
                /\ callLog[k].item <= Len(evaluations)
                /\ callLog[k].judge_id \in JudgeIds(evaluations[callLog[k].item])

\* The payload's keys that are no field of the rubric's Score.
UnknownKeys(payload) == DOMAIN payload \ (CategorySet \cup {"rationale"})

\* The payload without its unknown keys.
KnownPart(payload) == [k \in DOMAIN payload \ UnknownKeys(payload) |-> payload[k]]

\* Every rubric category of the payload is an integer within its range and the
\* rationale is a string.
FieldsInRange(payload) ==
    /\ \A c \in CategorySet :
          /\ c \in DOMAIN payload
          /\ payload[c].t = "int"
          /\ payload[c].n \in 1..SCORE_CATEGORIES[c]
    /\ "rationale" \in DOMAIN payload
    /\ payload["rationale"].t = "str"

\* C16 as stated: Score construction fails validation when the payload contains a
\* category that is not in the rubric.
C16_UnexpectedCategoryFails ==
    (vResult # <<>> /\ UnknownKeys(vPayload[1]) # {}) => vResult[1] = <<>>

\* C16 as amended: a category that is not in the rubric does not make Score
\* construction fail: a payload holding one fails validation exactly when the
\* same payload without that category fails.
C16_UnexpectedCategoryIgnored ==
    (vResult # <<>> /\ UnknownKeys(vPayload[1]) # {}) =>
        (vResult[1] = <<>> <=> JudgeScore_model_validate(KnownPart(vPayload[1])) = <<>>)

\* A payload with a category outside the rubric and an empty rationale was accepted.
C16_Witness ==
    /\ vResult # <<>>
    /\ "bonus" \in DOMAIN vPayload[1]
    /\ vResult[1] # <<>>
    /\ vResult[1][1].rationale = ""

\* C17: unknown fields of a judge's JSON response are ignored: a response holding
\* the four in-range category fields and a rationale plus unknown fields is
\* accepted, and its Score is the Score of the response without the unknown fields.
C17_UnknownFieldsIgnored ==
    (vResult # <<>> /\ FieldsInRange(vPayload[1]) /\ UnknownKeys(vPayload[1]) # {}) =>
        /\ vResult[1] # <<>>
        /\ vResult[1] = JudgeScore_model_validate(KnownPart(vPayload[1]))
        /\ DOMAIN vResult[1][1] = CategorySet \cup {"rationale"}
        /\ \A c \in CategorySet : vResult[1][1][c] = vPayload[1][c].n
        /\ vResult[1][1].rationale = vPayload[1]["rationale"].s

\* A response with an unknown field, every category at its maximum and a rationale
\* was validated.
C17_Witness ==
    /\ vResult # <<>>
    /\ UnknownKeys(vPayload[1]) = {"bonus"}
    /\ vResult[1] # <<>>
    /\ \A c \in CategorySet : vResult[1][1][c] = SCORE_CATEGORIES[c]
    /\ vResult[1][1].rationale = "Good work."

\* C18: every Score that is constructed, from a live response or from the
\* fallback, has a non-empty rationale; a response whose rationale is the empty
\* string is rejected and converted to the fallback.
C18_RationaleNonEmpty ==
    (lastCall # <<>> /\ lastCall[1].score # <<>>) =>
        lastCall[1].score[1].rationale # ""

\* C19: during a batch the items are processed in sorted-by-label order, the list
\* having been sorted once at discovery; for every item the judges are invoked in
\* the declaration order of the judge list, each (item, judge) pair exactly once and
\* without retry, and all judge calls of one item precede every call of the next.
C19_FixedInvocationOrder ==
    LET nj == Len(judges)
    IN /\ \A i, j \in 1..Len(essays) :
             i < j => NameRank(essays[i].student_name) <= NameRank(essays[j].student_name)
       /\ \A k \in 1..Len(callLog) :
             /\ callLog[k].item = ((k - 1) \div nj) + 1
             /\ callLog[k].judge_id = get_all_judges(env)[((k - 1) % nj) + 1].judge_id
       /\ \A e \in 1..Len(evaluations) : evaluations[e].essay = essays[e]
       /\ pc # "evaluate" => Len(callLog) = Len(essays) * nj

\* A batch of two items ended in which a call raised and a later call of the same
\* item returned.
C19_Witness ==
    /\ pc = "reports"
    /\ Len(essays) = 2
    /\ Len(callLog) = 2 * Len(judges)
    /\ callLog[2].raised
    /\ ~callLog[3].raised

\* C21: when evaluate_all_essays has returned, self.evaluations holds exactly one
\* scored item per essay of self.essays, in the order of the essays: a second call
\* leaves no second item for an essay.
C21_OneItemPerEssay ==
    pc = "returned" =>
        /\ Len(evaluations) = Len(essays)
        /\ \A i \in 1..Len(evaluations) : evaluations[i].essay = essays[i]

\* C22: the summary report and the consolidated results rank the items in the same
\* order, so the row the summary highlights is the first-place winner.
C22_SummaryRanksAsConsolidator ==
    (summary # <<>> /\ results # <<>>) =>
        /\ summary[1] = results[1].sorted_evaluations
        /\ (winners # <<>> /\ winners[1] # <<>>) => winners[1][1][2] = summary[1][1]

\* C23: ContestConfig keeps each argument that was passed and takes the settings
\* default (4 judges, 3 winners) only for an omitted one; num_winners=0 gives an
\* empty winners list and num_judges=0 a maximum total of 0.
C23_SuppliedArgumentsUsed ==
    (pc \in {"built", "rebuilt"}) =>
        LET args == configArgs[1]
            cfg == config[1]
        IN /\ cfg.num_judges = IF args.num_judges = <<>> THEN NUM_JUDGES ELSE args.num_judges[1]
           /\ cfg.num_winners = IF args.num_winners = <<>> THEN NUM_WINNERS ELSE args.num_winners[1]
           /\ args.num_winners = <<0>> => winners[1] = <<>>
           /\ args.num_judges = <<0>> => maxTotal[1] = 0

\* The scored items the evaluator holds: the finished ones and the one being filled.
HeldItems ==
    {evaluations[i] : i \in 1..Len(evaluations)} \cup {evaluation[i] : i \in 1..Len(evaluation)}

\* C24: in every state of the pipeline each held score's total lies between the
\* number of categories (4) and the per-judge maximum (85), no item holds more
\* scores than there are judges, and once the config exists with num_judges equal
\* to the number of judges, no item's total exceeds config.get_max_total_score().
C24_TotalsWithinMaxima ==
    \A ev \in HeldItems :
        /\ \A k \in 1..Len(ev.judge_scores) :
              /\ total(ev.judge_scores[k].score) >= Len(Categories)
              /\ total(ev.judge_scores[k].score) <= get_max_score_per_judge
        /\ Len(ev.judge_scores) <= Len(judges)
        /\ (config # <<>> /\ config[1].num_judges = Len(judges)) =>
              /\ Len(ev.judge_scores) <= config[1].num_judges
              /\ get_total_score(ev) <= get_max_total_score(config[1])

\* The config exists with num_judges = len(judges) and some item holds a score of
\* every judge, a live one among them, with a total above one judge's maximum.
C24_Witness ==
    /\ config # <<>>
    /\ config[1].num_judges = Len(judges)
    /\ \E i \in 1..Len(evaluations) :
          /\ Len(evaluations[i].judge_scores) = Len(judges)
          /\ get_total_score(evaluations[i]) > get_max_score_per_judge
          /\ \E k \in 1..Len(evaluations[i].judge_scores) :
                evaluations[i].judge_scores[k].score.rationale # SIMULATED_RATIONALE
====
